---- MODULE Spec2Model ----
(***************************************************************************)
(* NBADataFetcher (apirequests.py): the box-score retry loop, the          *)
(* incremental per-category dataset store and the season fetch             *)
(* orchestrator, as a state machine over runs of fetch_and_save_all_data.  *)
(***************************************************************************)
EXTENDS Integers, Sequences, FiniteSets, TLC

\* ------------------------------------------------------------------ bounds
\* Games of the season are numbered 1..MaxGames.
MaxGames == 2
\* Runs of fetch_and_save_all_data (each a new process) in one behaviour,
\* after the runs that left the files of the initial state.
MaxRuns == 1
\* fetch_box_score calls, per behaviour, that meet a decode failure.
MaxFlaky == 1
\* Length of the new-data list in the merge specification.
MaxBatches == 2
\* Merges of one new-data list in the merge specification.
MaxMerges == 2
\* Games of the raw game log are numbered 1..MaxLogGames.
MaxLogGames == 2
\* Rows of the raw game log.
MaxLogRows == 4
\* Games of the modelling frames are numbered 1..MaxModelGames.
MaxModelGames == 2

\* ------------------------------------------------------- program constants
max_retries == 10

data_types == <<"advanced", "hustle", "misc", "track", "traditional">>

DataTypeSet == {data_types[i] : i \in 1..Len(data_types)}

Games == 1..MaxGames

\* ------------------------------------------------------------ cell values
\* A DataFrame cell: a string of digits, an integer or NaN.  One record shape
\* for all three, so that cells of different kinds compare unequal.
Str(s) == [t |-> "str", s |-> s, n |-> 0]
IntV(n) == [t |-> "int", s |-> <<>>, n |-> n]
NaN == [t |-> "nan", s |-> <<>>, n |-> 0]

\* int("0012") = 12: the value of a digit string.
RECURSIVE IntOf(_)
IntOf(s) == IF s = <<>> THEN 0 ELSE 10 * IntOf(SubSeq(s, 1, Len(s) - 1)) + s[Len(s)]

\* str(12) = "12": the decimal digits of a natural number.
RECURSIVE DigitsOf(_)
DigitsOf(n) == IF n < 10 THEN <<n>> ELSE DigitsOf(n \div 10) \o <<n % 10>>

\* The text to_csv writes for a cell.
CellText(c) == IF c.t = "str" THEN c.s ELSE IF c.t = "int" THEN DigitsOf(c.n) ELSE <<>>

\* The value read_csv parses from a cell's text: numeric text is an integer
\* (leading zeros are lost), an empty field is NaN.
ParseCell(txt) == IF txt = <<>> THEN NaN ELSE IntV(IntOf(txt))

\* The GAME_ID the game log carries for game g: a zero-padded string.
GameIdStr(g) == <<0, 0, g>>

\* ------------------------------------------------------------- box scores
\* The endpoint fetch_box_score calls for a data type.
EndpointOf(data_type) ==
    IF data_type \in {"advanced", "traditional", "misc"}
    THEN IF data_type = "advanced" THEN "BoxScoreAdvancedV3"
         ELSE IF data_type = "traditional" THEN "BoxScoreTraditionalV3"
         ELSE "BoxScoreMiscV3"
    ELSE IF data_type = "hustle" THEN "BoxScoreHustleV2"
         ELSE "BoxScorePlayerTrackV3"

\* The ids of the two teams of a game, as the endpoints give them.
TeamIds == <<1610612737, 1610612738>>

\* box_score.team_stats.get_data_frame(): one row per team of the game.
TeamStatsOf(endpoint, game_id) ==
    [i \in 1..2 |-> [gameId |-> Str(game_id), teamId |-> TeamIds[i],
                     endpoint |-> endpoint, unnamed |-> <<>>]]

\* An entry of a new-data list: a DataFrame, or None.
DF(rows) == [none |-> FALSE, rows |-> rows]
None == [none |-> TRUE, rows |-> <<>>]

\* ---------------------------------------------------------------- pandas
RECURSIVE Flatten(_)
Flatten(objs) == IF objs = <<>> THEN <<>> ELSE Head(objs).rows \o Flatten(Tail(objs))

RECURSIVE MaxCols(_)
MaxCols(rows) ==
    IF rows = <<>> THEN 0
    ELSE LET m == MaxCols(Tail(rows))
             k == Len(Head(rows).unnamed)
         IN IF k > m THEN k ELSE m

\* Column alignment of pd.concat: a row lacking a column holds NaN there.
Pad(row, k) ==
    [row EXCEPT !.unnamed = [j \in 1..k |-> IF j <= Len(row.unnamed) THEN row.unnamed[j] ELSE NaN]]

NotNone(o) == ~o.none

\* pd.concat(objs, ignore_index=True): None entries are dropped silently; a
\* list holding nothing but None raises ValueError.
concat(objs) ==
    LET kept == SelectSeq(objs, NotNone)
        rows == Flatten(kept)
        k == MaxCols(rows)
    IN IF kept = <<>>
       THEN [ok |-> FALSE, rows |-> <<>>]
       ELSE [ok |-> TRUE, rows |-> [i \in 1..Len(rows) |-> Pad(rows[i], k)]]

\* DataFrame.to_csv(path): the rows of the whole frame, each with a leading
\* index field.
to_csv(df) ==
    [i \in 1..Len(df) |->
       [index |-> DigitsOf(i - 1),
        gameId |-> CellText(df[i].gameId),
        teamId |-> df[i].teamId,
        endpoint |-> df[i].endpoint,
        unnamed |-> [j \in 1..Len(df[i].unnamed) |-> CellText(df[i].unnamed[j])]]]

\* The data rows of a file that is missing, and of one saved from an empty
\* frame: none.
NoFile == <<>>

\* pd.read_csv(path) without index_col: the index column of the file comes
\* back as a data column ("Unnamed: 0"), ahead of those already there.
read_csv(file) ==
    [i \in 1..Len(file) |->
       [gameId |-> ParseCell(file[i].gameId),
        teamId |-> file[i].teamId,
        endpoint |-> file[i].endpoint,
        unnamed |-> <<ParseCell(file[i].index)>>
                    \o [j \in 1..Len(file[i].unnamed) |-> ParseCell(file[i].unnamed[j])]]]

\* ---------------------------------------------------------- dataset store
\* find_existing_data: the saved frame of each data type; an empty frame
\* when the file is missing or has no data row.
find_existing_data(fs) == [dt \in DataTypeSet |-> read_csv(fs[dt])]

GameIdColumn(df) == {df[i].gameId : i \in 1..Len(df)}

\* data_exists without int(): the game id is looked up as the string it is.
data_exists_str(existing_data, game_id) ==
    (existing_data /= <<>>) /\ (Str(game_id) \in GameIdColumn(existing_data))

\* data_exists looking the game id up in the teamId column.
data_exists_team(existing_data, game_id) ==
    (existing_data /= <<>>)
        /\ (IntOf(game_id) \in {existing_data[i].teamId : i \in 1..Len(existing_data)})

\* data_exists without the membership test.
data_exists_any(existing_data, game_id) == existing_data /= <<>>

\* data_exists(game_id, data_type), on the loaded frame of the data type.
data_exists(existing_data, game_id) ==
    (existing_data /= <<>>) /\ (IntV(IntOf(game_id)) \in GameIdColumn(existing_data))

\* combined_data with the new data ahead of the existing data.
combined_data_new_first(existing_data, new_data_list) ==
    IF existing_data /= <<>> /\ Len(new_data_list) /= 0
    THEN LET inner == concat(new_data_list)
         IN IF inner.ok THEN concat(<<DF(inner.rows), DF(existing_data)>>) ELSE inner
    ELSE IF Len(new_data_list) = 0
    THEN [ok |-> TRUE, rows |-> existing_data]
    ELSE concat(new_data_list)

\* concatenate_and_save: the frame handed to to_csv, or the ValueError of
\* pd.concat (ok = FALSE), in which case nothing is written.
combined_data(existing_data, new_data_list) ==
    IF existing_data /= <<>> /\ Len(new_data_list) /= 0
    THEN LET inner == concat(new_data_list)
         IN IF inner.ok THEN concat(<<DF(existing_data), DF(inner.rows)>>) ELSE inner
    ELSE IF Len(new_data_list) = 0
    THEN [ok |-> TRUE, rows |-> existing_data]
    ELSE concat(new_data_list)

concatenate_and_save(existing_data, new_data_list, old_file) ==
    LET c == combined_data(existing_data, new_data_list)
    IN IF c.ok THEN to_csv(c.rows) ELSE old_file

\* -------------------------------------------------------- fetch_box_score
\* RetryAfter with the bound halved: the handler gives up after half the
\* attempts.
RetryAfterHalf(attempt) == attempt < max_retries \div 2

\* The handler of JSONDecodeError in fetch_box_score: TRUE to sleep and go on
\* with the loop, FALSE to re-raise.
RetryAfter(attempt) == attempt < max_retries

\* The loop of fetch_box_score from iteration `attempt` on, when the endpoint
\* raises JSONDecodeError on its first `failures` calls and the call after
\* them ends as `then` says ("ok", or the exception it raises).  The result
\* is how fetch_box_score ends and the number of endpoint calls made.  A loop
\* that is used up falls off the end of the function: it returns None.
RECURSIVE fetch_attempts(_, _, _, _, _)
fetch_attempts(attempt, dt, gid, failures, then) ==
    IF attempt >= max_retries
    THEN [kind |-> "return", value |-> None, calls |-> attempt]
    ELSE IF attempt < failures
    THEN IF RetryAfter(attempt)
         THEN fetch_attempts(attempt + 1, dt, gid, failures, then)
         ELSE [kind |-> "JSONDecodeError", value |-> None, calls |-> attempt + 1]
    ELSE IF then = "ok"
    THEN [kind |-> "return", value |-> DF(TeamStatsOf(EndpointOf(dt), gid)),
          calls |-> attempt + 1]
    ELSE [kind |-> then, value |-> None, calls |-> attempt + 1]

\* fetch_box_score treating every exception of the endpoint as a decode
\* failure.
fetch_box_score_retry_all(dt, gid, failures, then) ==
    fetch_attempts(0, dt, gid, IF then = "ok" THEN failures ELSE max_retries, then)

fetch_box_score(dt, gid, failures, then) == fetch_attempts(0, dt, gid, failures, then)

\* The decode failures a fetch_box_score call can meet before the endpoint
\* answers, and before it raises something else.
Failures == 0..max_retries
FailuresBefore == 0..(max_retries - 1)

\* The orchestrator is run on the ends of these ranges: no failure, one, a
\* failure on every attempt but the last, a failure on every attempt.
RunFailures == {0, 1, max_retries - 1, max_retries}

\* ------------------------------------------------------------------ state
VARIABLES
    files,         \* data type -> the data rows of {season}_{data_type}_stats.csv
    existing,      \* data type -> existing_{data_type}_stats, as loaded
    stats_list,    \* data type -> the run's {data_type}_stats_list
    game_ids,      \* the game ids of the run, in game-log order
    game_counter,  \* games started in the run
    ci,            \* position of the current data type in data_types
    pc,            \* where the run is: "for", "try", "save" or "ended"
                   \* (SpecFetch: "call", "called"; SpecMerge: "merge", "merged")
    ret,           \* the fetch_box_score call of the last step, if it made one
    flush,         \* the save sequence the run entered
                   \* (SpecMerge: the new-data list of the merge, "same" or "absent")
    fi,            \* position in data_types of the next save of the sequence
    writes,        \* data type -> to_csv calls of the run
    outcome,       \* how the last run ended
    skipped,       \* games for which "skipping game" was printed in the run
    flaky,         \* fetch_box_score calls that met a decode failure
    runs,          \* runs started (SpecMerge: merges made)
    arg,           \* the arguments of the function a function specification applies
    result         \* what that function returned or raised

vars == <<files, existing, stats_list, game_ids, game_counter, ci, pc, ret,
          flush, fi, writes, outcome, skipped, flaky, runs, arg, result>>

\* The variables of the function specifications, which the fetch runs and the
\* merges leave alone.
NoArg == [f |-> "none"]
NoResult == [kind |-> "none"]

NoRet == [kind |-> "none", value |-> None, calls |-> 0, failures |-> 0, then |-> "none"]

\* The game ids of the processed game log: the season's first n games.
GameIdLists == {[i \in 1..n |-> GameIdStr(i)] : n \in 0..MaxGames}

EmptyLists == [dt \in DataTypeSet |-> <<>>]

NoWrites == [dt \in DataTypeSet |-> 0]

\* The files a run over the first n games of the season leaves when it meets
\* no failure and finds no file.
SeasonSoFar(n) ==
    [dt \in DataTypeSet |->
       concatenate_and_save(<<>>,
                            [i \in 1..n |-> DF(TeamStatsOf(EndpointOf(dt), GameIdStr(i)))],
                            NoFile)]

\* No run is in progress; the files are those of an earlier part of the season.
Init ==
    /\ files \in {SeasonSoFar(n) : n \in 0..MaxGames}
    /\ existing = [dt \in DataTypeSet |-> <<>>]
    /\ stats_list = EmptyLists
    /\ game_ids = <<>>
    /\ game_counter = 0
    /\ ci = 1
    /\ pc = "ended"
    /\ ret = NoRet
    /\ flush = "none"
    /\ fi = 1
    /\ writes = NoWrites
    /\ outcome = "none"
    /\ skipped = {}
    /\ flaky = 0
    /\ runs = 0
    /\ arg = NoArg
    /\ result = NoResult

game_id == game_ids[game_counter]
data_type == data_types[ci]

\* How the run ends after the last save of a save sequence: the function
\* returns, or the handler re-raises what it caught.
OutcomeOf(seq) ==
    IF seq = "normal" THEN "normal"
    ELSE IF seq = "interrupt" THEN "KeyboardInterrupt"
    ELSE "Exception"

\* ----------------------------------------------------------- orchestrator
\* fetch_and_save_all_data up to the loop: the game ids of the processed game
\* log, find_existing_data, five empty lists.
StartRun(ids) ==
    /\ pc = "ended"
    /\ runs < MaxRuns
    /\ runs' = runs + 1
    /\ game_ids' = ids
    /\ existing' = find_existing_data(files)
    /\ stats_list' = EmptyLists
    /\ game_counter' = 0
    /\ ci' = 1
    /\ pc' = "for"
    /\ ret' = NoRet
    /\ flush' = "none"
    /\ fi' = 1
    /\ writes' = NoWrites
    /\ outcome' = "running"
    /\ skipped' = {}
    /\ UNCHANGED <<files, flaky>>
    /\ UNCHANGED <<arg, result>>

\* for game_id in game_ids: the next game enters the try block.
NextGame ==
    /\ pc = "for"
    /\ game_counter < Len(game_ids)
    /\ game_counter' = game_counter + 1
    /\ ci' = 1
    /\ pc' = "try"
    /\ ret' = NoRet
    /\ UNCHANGED <<files, existing, stats_list, game_ids, flush, fi, writes,
                   outcome, skipped, flaky, runs>>
    /\ UNCHANGED <<arg, result>>

\* AfterDataType staying at the data type it has just dealt with.
AfterDataTypeAgain ==
    /\ ci' = ci
    /\ pc' = "try"

\* Control after the statements of one data type in the try block.
AfterDataType ==
    IF ci < Len(data_types)
    THEN /\ ci' = ci + 1
         /\ pc' = "try"
    ELSE /\ ci' = ci
         /\ pc' = "for"

\* data_exists is true: the data type is passed over.
AlreadyExists ==
    /\ pc = "try"
    /\ data_exists(existing[data_type], game_id)
    /\ AfterDataType
    /\ ret' = NoRet
    /\ UNCHANGED <<files, existing, stats_list, game_ids, game_counter,
                   flush, fi, writes, outcome, skipped, flaky, runs>>
    /\ UNCHANGED <<arg, result>>

\* The call of fetch_box_score that the step made, for `ret`: what the
\* endpoint did (failures, then) and how the call ended.
Called(r, failures, then) ==
    [kind |-> r.kind, value |-> r.value, calls |-> r.calls, failures |-> failures,
     then |-> then]

\* data_exists is false: fetch_box_score is called and no exception other
\* than JSONDecodeError meets it.  What it returns is appended to the list of
\* the data type; a JSONDecodeError it raises reaches "except JSONDecodeError"
\* of the try block, which prints and goes on with the next game.
Fetch(failures) ==
    /\ pc = "try"
    /\ ~data_exists(existing[data_type], game_id)
    /\ failures > 0 => flaky < MaxFlaky
    /\ flaky' = IF failures > 0 THEN flaky + 1 ELSE flaky
    /\ LET r == fetch_box_score(data_type, game_id, failures, "ok")
       IN /\ ret' = Called(r, failures, "ok")
          /\ IF r.kind = "return"
             THEN /\ stats_list' = [stats_list EXCEPT ![data_type] = Append(@, r.value)]
                  /\ AfterDataType
                  /\ UNCHANGED skipped
             ELSE /\ skipped' = skipped \cup {game_counter}
                  /\ pc' = "for"
                  /\ UNCHANGED <<stats_list, ci>>
    /\ UNCHANGED <<files, existing, game_ids, game_counter, flush, fi, writes,
                   outcome, runs>>
    /\ UNCHANGED <<arg, result>>

\* data_exists is false: fetch_box_score is called and, after `failures`
\* decode failures, the endpoint call raises another exception.  It leaves
\* fetch_box_score and reaches "except Exception" of the try block.
FetchRaises(failures) ==
    /\ pc = "try"
    /\ ~data_exists(existing[data_type], game_id)
    /\ failures > 0 => flaky < MaxFlaky
    /\ flaky' = IF failures > 0 THEN flaky + 1 ELSE flaky
    /\ LET r == fetch_box_score(data_type, game_id, failures, "Exception")
       IN /\ r.kind = "Exception"
          /\ ret' = Called(r, failures, "Exception")
    /\ pc' = "save"
    /\ fi' = 1
    /\ flush' = "exception"
    /\ UNCHANGED <<files, existing, stats_list, game_ids, game_counter, ci,
                   writes, outcome, skipped, runs>>
    /\ UNCHANGED <<arg, result>>

\* KeyboardInterrupt in the try block (in data_exists, in fetch_box_score or
\* its sleep, in append): it reaches "except KeyboardInterrupt".
InterruptInTry ==
    /\ pc = "try"
    /\ pc' = "save"
    /\ fi' = 1
    /\ flush' = "interrupt"
    /\ ret' = NoRet
    /\ UNCHANGED <<files, existing, stats_list, game_ids, game_counter, ci,
                   writes, outcome, skipped, flaky, runs>>
    /\ UNCHANGED <<arg, result>>

\* KeyboardInterrupt outside the try block (at the loop header and its
\* progress print, during the saves of a handler or those after the loop):
\* no handler is in reach, the run ends there.
InterruptOutsideTry ==
    /\ pc \in {"for", "save"}
    /\ pc' = "ended"
    /\ outcome' = "KeyboardInterrupt"
    /\ ret' = NoRet
    /\ UNCHANGED <<files, existing, stats_list, game_ids, game_counter, ci,
                   flush, fi, writes, skipped, flaky, runs>>
    /\ UNCHANGED <<arg, result>>

\* The loop is over: the saves after it begin.
LoopDone ==
    /\ pc = "for"
    /\ game_counter = Len(game_ids)
    /\ pc' = "save"
    /\ fi' = 1
    /\ flush' = "normal"
    /\ ret' = NoRet
    /\ UNCHANGED <<files, existing, stats_list, game_ids, game_counter, ci,
                   writes, outcome, skipped, flaky, runs>>
    /\ UNCHANGED <<arg, result>>

\* The next concatenate_and_save of a save sequence (of a handler, or the one
\* after the loop).  The ValueError of pd.concat leaves the sequence and ends
\* the run; after the last save the handler re-raises, or the function
\* returns.
Save ==
    /\ pc = "save"
    /\ LET dt == data_types[fi]
       IN IF combined_data(existing[dt], stats_list[dt]).ok
          THEN /\ files' = [files EXCEPT ![dt] =
                              concatenate_and_save(existing[dt], stats_list[dt], @)]
               /\ writes' = [writes EXCEPT ![dt] = @ + 1]
               /\ IF fi < Len(data_types)
                  THEN /\ fi' = fi + 1
                       /\ UNCHANGED <<pc, outcome>>
                  ELSE /\ fi' = fi
                       /\ pc' = "ended"
                       /\ outcome' = OutcomeOf(flush)
          ELSE /\ pc' = "ended"
               /\ outcome' = "ValueError"
               /\ UNCHANGED <<files, writes, fi>>
    /\ ret' = NoRet
    /\ UNCHANGED <<existing, stats_list, game_ids, game_counter, ci, flush,
                   skipped, flaky, runs>>
    /\ UNCHANGED <<arg, result>>

Next ==
    \/ \E ids \in GameIdLists : StartRun(ids)
    \/ NextGame
    \/ AlreadyExists
    \/ \E k \in RunFailures : Fetch(k)
    \/ \E k \in RunFailures \cap FailuresBefore : FetchRaises(k)
    \/ InterruptInTry
    \/ InterruptOutsideTry
    \/ LoopDone
    \/ Save

Spec == Init /\ [][Next]_vars

\* ------------------------------------------- fetch_box_score on its own
\* fetch_box_score as a function of what the endpoint does: a data type and a
\* game id are given, one call is made.
InitFetch ==
    /\ files = [dt \in DataTypeSet |-> NoFile]
    /\ existing = [dt \in DataTypeSet |-> <<>>]
    /\ stats_list = EmptyLists
    /\ game_ids \in {<<GameIdStr(g)>> : g \in Games}
    /\ game_counter = 1
    /\ ci \in 1..Len(data_types)
    /\ pc = "call"
    /\ ret = NoRet
    /\ flush = "none"
    /\ fi = 1
    /\ writes = NoWrites
    /\ outcome = "none"
    /\ skipped = {}
    /\ flaky = 0
    /\ runs = 0
    /\ arg = NoArg
    /\ result = NoResult

CallFetchBoxScore(failures, then) ==
    /\ pc = "call"
    /\ failures = max_retries => then = "ok"
    /\ ret' = Called(fetch_box_score(data_type, game_id, failures, then), failures, then)
    /\ pc' = "called"
    /\ UNCHANGED <<files, existing, stats_list, game_ids, game_counter, ci,
                   flush, fi, writes, outcome, skipped, flaky, runs>>
    /\ UNCHANGED <<arg, result>>

NextFetch ==
    \E k \in Failures, then \in {"ok", "Exception", "KeyboardInterrupt"} :
        CallFetchBoxScore(k, then)

SpecFetch == InitFetch /\ [][NextFetch]_vars

\* ---------------------------------------------- the dataset store on its own
\* The new-data lists of a data type: team stats of games, and None.
NewDataLists(dt) ==
    LET entries == {DF(TeamStatsOf(EndpointOf(dt), GameIdStr(g))) : g \in Games}
                       \cup {None}
    IN UNION {[1..n -> entries] : n \in 0..MaxBatches}

\* find_existing_data has loaded the files of an earlier part of the season;
\* one data type has a new-data list.
InitMerge ==
    /\ files \in {SeasonSoFar(n) : n \in 0..MaxGames}
    /\ existing = find_existing_data(files)
    /\ ci \in 1..Len(data_types)
    /\ \E new_data_list \in NewDataLists(data_type) :
           stats_list = [EmptyLists EXCEPT ![data_type] = new_data_list]
    /\ game_ids = <<>>
    /\ game_counter = 0
    /\ pc = "merge"
    /\ ret = NoRet
    /\ flush = "none"
    /\ fi = 1
    /\ writes = NoWrites
    /\ outcome = "none"
    /\ skipped = {}
    /\ flaky = 0
    /\ runs = 0
    /\ arg = NoArg
    /\ result = NoResult

\* concatenate_and_save(data_type, new_data_list).
MergeSave ==
    /\ pc = "merge"
    /\ LET c == combined_data(existing[data_type], stats_list[data_type])
       IN /\ files' = [files EXCEPT ![data_type] =
                         concatenate_and_save(existing[data_type], stats_list[data_type], @)]
          /\ writes' = [writes EXCEPT ![data_type] = IF c.ok THEN @ + 1 ELSE @]
          /\ outcome' = IF c.ok THEN "saved" ELSE "ValueError"
    /\ runs' = runs + 1
    /\ pc' = "merged"
    /\ UNCHANGED <<existing, stats_list, game_ids, game_counter, ci, ret, flush,
                   fi, skipped, flaky>>
    /\ UNCHANGED <<arg, result>>

\* find_existing_data again; the same new-data list is merged once more.
MergeReload ==
    /\ pc = "merged"
    /\ runs < MaxMerges
    /\ existing' = find_existing_data(files)
    /\ flush' = "same"
    /\ pc' = "merge"
    /\ UNCHANGED <<files, stats_list, game_ids, game_counter, ci, ret,
                   fi, writes, outcome, skipped, flaky, runs>>
    /\ UNCHANGED <<arg, result>>

\* A batch the orchestrator would fetch and append again: None (its fetch
\* gave no data), or team stats of a game for which data_exists is false.
Refetched(ex, entry) ==
    entry.none \/ ~data_exists(ex, entry.rows[1].gameId.s)

\* find_existing_data again; of the new-data list, what the orchestrator
\* would fetch again is merged once more.
MergeReloadAbsent ==
    /\ pc = "merged"
    /\ runs < MaxMerges
    /\ existing' = find_existing_data(files)
    /\ stats_list' = [stats_list EXCEPT ![data_type] =
                        LET ex == existing'[data_type]
                            keep(entry) == Refetched(ex, entry)
                        IN SelectSeq(@, keep)]
    /\ flush' = "absent"
    /\ pc' = "merge"
    /\ UNCHANGED <<files, game_ids, game_counter, ci, ret, fi, writes,
                   outcome, skipped, flaky, runs>>
    /\ UNCHANGED <<arg, result>>

NextMerge ==
    \/ MergeSave
    \/ MergeReload
    \/ MergeReloadAbsent

SpecMerge == InitMerge /\ [][NextMerge]_vars

\* ------------------------------------------------- process_game_logs
\* A GAME_DATE of the API, "YYYY-MM-DD", as its parts between the dashes.
DateStrings == {<<<<2, 0, 2, 4>>, <<0, 1>>, <<0, d>>>> : d \in 1..2}

\* date(*map(int, x.split("-"))).
ParseDate(x) == [year |-> IntOf(x[1]), month |-> IntOf(x[2]), day |-> IntOf(x[3])]

\* The values date.today() can have when the game log is processed.
Todays == {ParseDate(x) : x \in DateStrings} \cup {[year |-> 2024, month |-> 1, day |-> 3]}

LogGames == 1..MaxLogGames

team_dict == <<"ATL", "BOS">>

\* The row of the league game log for one team of game g: the home team's
\* MATCHUP reads "ATL vs. BOS", the away team's "BOS @ ATL".
LogRow(g, side, game_date) ==
    LET home == ((g - 1) % 2) + 1
        away == 3 - home
        team == IF side = "home" THEN home ELSE away
        opponent == 3 - team
    IN [GAME_ID |-> GameIdStr(g),
        TEAM_ID |-> TeamIds[team],
        TEAM_ABBREVIATION |-> team_dict[team],
        GAME_DATE |-> game_date,
        MATCHUP |-> <<team_dict[team], IF side = "home" THEN " vs. " ELSE " @ ",
                      team_dict[opponent]>>,
        PTS |-> IF side = "home" THEN 100 + g ELSE 90 + g]

\* str.contains(pat) on a MATCHUP.
Contains(matchup, pat) == \E i \in 1..Len(matchup) : matchup[i] = pat

\* drop_duplicates that drops nothing.
keep_duplicates(rows) == rows

\* drop_duplicates(subset=["GAME_ID", "TEAM_ID"]): the first row of each
\* (GAME_ID, TEAM_ID) is kept.
drop_duplicates(rows) ==
    LET first(i) == \A j \in 1..(i - 1) :
                        <<rows[j].GAME_ID, rows[j].TEAM_ID>> /= <<rows[i].GAME_ID, rows[i].TEAM_ID>>
        F[i \in 0..Len(rows)] ==
            IF i = 0 THEN <<>>
            ELSE IF first(i) THEN Append(F[i - 1], rows[i]) ELSE F[i - 1]
    IN F[Len(rows)]

\* The date filter reading a GAME_DATE as year, day, month.
not_today_swapped(row, today) ==
    [year |-> IntOf(row.GAME_DATE[1]), month |-> IntOf(row.GAME_DATE[3]),
     day |-> IntOf(row.GAME_DATE[2])] /= today

\* game_logs["GAME_DATE"] != date.today(), on a row with its date parsed.
not_today(row, today) == ParseDate(row.GAME_DATE) /= today

\* pd.merge(home_logs, away_logs, on=["GAME_ID", "GAME_DATE"]): an inner join,
\* in the order of home_logs; the selected columns, GAME_ID renamed gameId.
merge(home_logs, away_logs) ==
    LET matches(h) ==
            LET on(a) == a.GAME_ID = h.GAME_ID /\ a.GAME_DATE = h.GAME_DATE
                m == SelectSeq(away_logs, on)
            IN [k \in 1..Len(m) |->
                  [gameId |-> h.GAME_ID,
                   GAME_DATE |-> ParseDate(h.GAME_DATE),
                   HOME_TEAM_ABBREVIATION |-> h.TEAM_ABBREVIATION,
                   HOME_TEAM_PTS |-> h.PTS,
                   AWAY_TEAM_ABBREVIATION |-> m[k].TEAM_ABBREVIATION,
                   AWAY_TEAM_PTS |-> m[k].PTS]]
        M[i \in 0..Len(home_logs)] ==
            IF i = 0 THEN <<>> ELSE M[i - 1] \o matches(home_logs[i])
    IN M[Len(home_logs)]

process_game_logs(game_logs, today) ==
    LET dated(row) == not_today(row, today)
        is_home(row) == Contains(row.MATCHUP, " vs. ")
        is_away(row) == Contains(row.MATCHUP, " @ ")
        filtered == drop_duplicates(SelectSeq(game_logs, dated))
        home_logs == SelectSeq(filtered, is_home)
        away_logs == SelectSeq(filtered, is_away)
    IN merge(home_logs, away_logs)

\* The fetcher's variables in the function specifications: no run, no file.
NoFetcher ==
    /\ files = [dt \in DataTypeSet |-> NoFile]
    /\ existing = [dt \in DataTypeSet |-> <<>>]
    /\ stats_list = EmptyLists
    /\ game_ids = <<>>
    /\ game_counter = 0
    /\ ci = 1
    /\ ret = NoRet
    /\ flush = "none"
    /\ fi = 1
    /\ writes = NoWrites
    /\ outcome = "none"
    /\ skipped = {}
    /\ flaky = 0
    /\ runs = 0

fetcher_vars == <<files, existing, stats_list, game_ids, game_counter, ci, ret,
                  flush, fi, writes, outcome, skipped, flaky, runs>>

\* fetch_league_game_logs has returned no row yet; process_game_logs will read
\* date.today().
InitLogs ==
    /\ NoFetcher
    /\ pc = "fetch"
    /\ arg \in {[f |-> "process_game_logs", game_logs |-> <<>>, today |-> t] : t \in Todays}
    /\ result = NoResult

\* One more row of the game log that fetch_league_game_logs returns: the row
\* of one team of a game, on the date of the game.  Rows come in any order,
\* possibly repeated, possibly without the other row of the game.
FetchLogRow(g, side, game_date) ==
    /\ pc = "fetch"
    /\ Len(arg.game_logs) < MaxLogRows
    /\ \A i \in 1..Len(arg.game_logs) :
           arg.game_logs[i].GAME_ID = GameIdStr(g) => arg.game_logs[i].GAME_DATE = game_date
    /\ arg' = [arg EXCEPT !.game_logs = Append(@, LogRow(g, side, game_date))]
    /\ UNCHANGED <<pc, result>>
    /\ UNCHANGED fetcher_vars

ProcessGameLogs ==
    /\ pc = "fetch"
    /\ arg.f = "process_game_logs"
    /\ result' = [kind |-> "return",
                  value |-> process_game_logs(arg.game_logs, arg.today)]
    /\ pc' = "called"
    /\ UNCHANGED arg
    /\ UNCHANGED fetcher_vars

NextLogs ==
    \/ \E g \in LogGames, side \in {"home", "away"}, game_date \in DateStrings :
           FetchLogRow(g, side, game_date)
    \/ ProcessGameLogs

SpecLogs == InitLogs /\ [][NextLogs]_vars

\* ------------------------------------------ model.py: difference features
\* Column names of the modelling frames.
Col(kind, k) == [kind |-> kind, k |-> k]

ModelGames == 1..MaxModelGames

\* The statistic columns of the team averages, and the values of the first
\* (the second holds the game number).
StatColumns == <<Col("stat", 1), Col("stat", 2)>>
StatValues == {IntV(10), IntV(7), IntV(5), NaN}

\* The choice of a side's frame having no row for a game.
NoRow == [t |-> "absent", s |-> <<>>, n |-> 0]

\* df_home and df_away as generate_home_away_data returns them: gameId, the
\* statistic columns, the get_dummies column of the side's team; at most one
\* row per game, sorted by gameId.
SideFrames(team) ==
    {[indexed |-> FALSE,
      columns |-> StatColumns \o <<Col("teamTricode", team)>>,
      rows |-> LET games == {g \in ModelGames : pick[g] /= NoRow}
                   F[g \in 0..MaxModelGames] ==
                       IF g = 0 THEN <<>>
                       ELSE IF g \in games
                       THEN Append(F[g - 1],
                                   [gameId |-> g, values |-> <<pick[g], IntV(g), IntV(1)>>])
                       ELSE F[g - 1]
               IN F[MaxModelGames]] :
        pick \in [ModelGames -> StatValues \cup {NoRow}]}

\* df.columns: gameId is a column unless it is the index.
ColumnsOf(df) == IF df.indexed THEN df.columns ELSE <<Col("gameId", 0)>> \o df.columns

\* df.set_index("gameId") and df.reset_index().
set_index(df) == [df EXCEPT !.indexed = TRUE]
reset_index(df) == [df EXCEPT !.indexed = FALSE]

\* The positions in df.columns of the columns of a list.
PositionOf(df, col) == CHOOSE j \in 1..Len(df.columns) : df.columns[j] = col

\* df[cols], for columns all in the frame.
Select(df, cols) ==
    [df EXCEPT !.columns = cols,
               !.rows = [i \in 1..Len(df.rows) |->
                           [df.rows[i] EXCEPT !.values =
                               [j \in 1..Len(cols) |-> df.rows[i].values[PositionOf(df, cols[j])]]]]]

\* The cell of a column in the row of a game, NaN when there is none.
CellOf(df, g, j) ==
    IF \E i \in 1..Len(df.rows) : df.rows[i].gameId = g
    THEN (df.rows[CHOOSE i \in 1..Len(df.rows) : df.rows[i].gameId = g]).values[j]
    ELSE NaN

\* left.sub(right, fill_value=0) of two frames with the same columns, indexed
\* by gameId: the rows of the union of the indexes in sorted order; a cell
\* missing on one side counts as 0, one missing on both sides stays NaN.
sub(left, right) ==
    LET index == {left.rows[i].gameId : i \in 1..Len(left.rows)}
                     \cup {right.rows[i].gameId : i \in 1..Len(right.rows)}
        cell(g, j) ==
            LET l == CellOf(left, g, j)
                r == CellOf(right, g, j)
            IN IF l = NaN /\ r = NaN THEN NaN
               ELSE IntV((IF l = NaN THEN 0 ELSE l.n) - (IF r = NaN THEN 0 ELSE r.n))
        F[g \in 0..MaxModelGames] ==
            IF g = 0 THEN <<>>
            ELSE IF g \in index
            THEN Append(F[g - 1],
                        [gameId |-> g, values |-> [j \in 1..Len(left.columns) |-> cell(g, j)]])
            ELSE F[g - 1]
    IN [indexed |-> TRUE, columns |-> left.columns, rows |-> F[MaxModelGames]]

NotTeamTricode(col) == col.kind /= "teamTricode"

\* col != "gamId" in the comprehension of line 57: true of every column.
NotGamId(col) == col.kind /= "gamId"

\* The names line 57 assigns: "gameId", then "diff_" for every column of the
\* frame that is not "gamId".
DiffNames(columns) ==
    <<Col("gameId", 0)>>
        \o [j \in 1..Len(SelectSeq(columns, NotGamId)) |-> Col("diff_", 0)]

\* generate_diff_features(df_home, df_away): the frame it returns, or the
\* ValueError of assigning to .columns a list of another length.
generate_diff_features(df_home, df_away) ==
    LET home == set_index(df_home)
        away == set_index(df_away)
        diff_columns == SelectSeq(home.columns, NotTeamTricode)
        diff_features == reset_index(sub(Select(home, diff_columns), Select(away, diff_columns)))
        names == DiffNames(ColumnsOf(diff_features))
    IN IF Len(names) /= Len(ColumnsOf(diff_features))
       THEN [kind |-> "ValueError", value |-> diff_features]
       ELSE [kind |-> "return",
             value |-> [diff_features EXCEPT !.columns = Tail(names)]]

InitDiff ==
    /\ NoFetcher
    /\ pc = "call"
    /\ arg \in {[f |-> "generate_diff_features", df_home |-> h, df_away |-> a] :
                   h \in SideFrames(1), a \in SideFrames(2)}
    /\ result = NoResult

GenerateDiffFeatures ==
    /\ pc = "call"
    /\ arg.f = "generate_diff_features"
    /\ result' = generate_diff_features(arg.df_home, arg.df_away)
    /\ pc' = "called"
    /\ UNCHANGED arg
    /\ UNCHANGED fetcher_vars

NextDiff == GenerateDiffFeatures

SpecDiff == InitDiff /\ [][NextDiff]_vars

\* ------------------------------------------------ model.py: train/test split
\* Python values that line 72 and 73 compare: a list, and the Timestamp
\* pd.to_datetime makes of a date string.
PyList(items) == [type |-> "list", items |-> items, date |-> ParseDate(<<<<0>>, <<0>>, <<0>>>>)]
to_datetime(x) == [type |-> "Timestamp", items |-> <<>>, date |-> ParseDate(x)]

DateBefore(a, b) ==
    \/ a.year < b.year
    \/ a.year = b.year /\ a.month < b.month
    \/ a.year = b.year /\ a.month = b.month /\ a.day < b.day

\* a < b and a >= b in Python: defined between two Timestamps; a list and a
\* Timestamp do not compare, both sides answer NotImplemented and the
\* interpreter raises TypeError.
py_lt(a, b) ==
    IF a.type = "Timestamp" /\ b.type = "Timestamp"
    THEN [kind |-> "return", value |-> DateBefore(a.date, b.date)]
    ELSE [kind |-> "TypeError", value |-> FALSE]

py_ge(a, b) ==
    IF a.type = "Timestamp" /\ b.type = "Timestamp"
    THEN [kind |-> "return", value |-> ~DateBefore(a.date, b.date)]
    ELSE [kind |-> "TypeError", value |-> FALSE]

\* df_games of load_data: one row per game, GAME_DATE a Timestamp, spread the
\* home points minus the away points.
GamesFrames ==
    {[g \in ModelGames |->
        [gameId |-> g,
         GAME_DATE |-> to_datetime(pick[g][1]),
         HOME_TEAM_PTS |-> pick[g][2],
         AWAY_TEAM_PTS |-> pick[g][3],
         spread |-> pick[g][2] - pick[g][3]]] :
     pick \in [ModelGames -> DateStrings \X {100, 95} \X {90, 101}]}

\* generate_y(df_combined) for the feature rows of generate_full_vector:
\* sorted by gameId, the spread of each row's game.
generate_y(df_games) == [i \in 1..Len(df_games) |-> df_games[i].spread]

\* df_combined after line 93: the feature rows, spread dropped.
FeatureRows(df_games) == [i \in 1..Len(df_games) |-> [gameId |-> df_games[i].gameId]]

\* df_games[key], df_games.loc[mask, ...] and the rest of split_scale_data
\* for a key that is one bool: no column of that name.
AfterMasks(train_key, test_key) == [kind |-> "KeyError", value |-> <<>>]

\* split_scale_data(df_games, cutoff_date, df_combined, y): the first
\* statement compares the list ["GAME_DATE"] with the cutoff Timestamp.
split_scale_data(df_games, cutoff_date, df_combined, y) ==
    LET train_key == py_lt(PyList(<<"GAME_DATE">>), to_datetime(cutoff_date))
        test_key == py_ge(PyList(<<"GAME_DATE">>), to_datetime(cutoff_date))
    IN IF train_key.kind /= "return" THEN [kind |-> train_key.kind, value |-> <<>>]
       ELSE IF test_key.kind /= "return" THEN [kind |-> test_key.kind, value |-> <<>>]
       ELSE AfterMasks(train_key.value, test_key.value)

InitSplit ==
    /\ NoFetcher
    /\ pc = "call"
    /\ arg \in {[f |-> "split_scale_data", df_games |-> games, cutoff_date |-> cutoff,
                 df_combined |-> FeatureRows(games), y |-> generate_y(games)] :
                   games \in GamesFrames, cutoff \in DateStrings}
    /\ result = NoResult

SplitScaleData ==
    /\ pc = "call"
    /\ arg.f = "split_scale_data"
    /\ result' = split_scale_data(arg.df_games, arg.cutoff_date, arg.df_combined, arg.y)
    /\ pc' = "called"
    /\ UNCHANGED arg
    /\ UNCHANGED fetcher_vars

NextSplit == SplitScaleData

SpecSplit == InitSplit /\ [][NextSplit]_vars

\* ------------------------------------------------------------ properties
\* The (game id, team id, endpoint) of the rows of a frame, of a file and of
\* a new-data list, game ids as integers, in row order.
FrameKeys(df) ==
    [i \in 1..Len(df) |->
       <<IF df[i].gameId.t = "str" THEN IntOf(df[i].gameId.s) ELSE df[i].gameId.n,
         df[i].teamId, df[i].endpoint>>]

FileKeys(file) ==
    [i \in 1..Len(file) |-> <<IntOf(file[i].gameId), file[i].teamId, file[i].endpoint>>]

ListKeys(new_data_list) == FrameKeys(Flatten(SelectSeq(new_data_list, NotNone)))

Occurrences(keys, k) == Cardinality({i \in 1..Len(keys) : keys[i] = k})

Range(seq) == {seq[i] : i \in 1..Len(seq)}

\* C1: when the endpoint raises JSONDecodeError on every attempt,
\* fetch_box_score makes exactly max_retries attempts and ends by raising
\* JSONDecodeError to its caller; it does not return.
C1_ExhaustedRetriesRaise ==
    (pc = "called" /\ ret.failures = max_retries)
        => (ret.calls = max_retries /\ ret.kind = "JSONDecodeError")

\* C2: for every k < max_retries, when the endpoint raises JSONDecodeError on
\* the first k attempts and answers on attempt k + 1, fetch_box_score returns
\* the team stats of that answer and the endpoint was called k + 1 times.
C2_ReturnsAfterKFailures ==
    (pc = "called" /\ ret.failures < max_retries /\ ret.then = "ok")
        => /\ ret.kind = "return"
           /\ ret.value = DF(TeamStatsOf(EndpointOf(data_type), game_id))
           /\ ret.calls = ret.failures + 1

C2_Witness ==
    /\ pc = "called"
    /\ ret.failures = max_retries - 1
    /\ ret.then = "ok"
    /\ ret.kind = "return"
    /\ ~ret.value.none
    /\ ret.calls = max_retries

\* Every row the run has buffered for the data type is in the file.
BufferedSaved(dt) == Range(ListKeys(stats_list[dt])) \subseteq Range(FileKeys(files[dt]))

\* A run that an interruption reached has stopped.
InterruptedRunEnded ==
    pc = "ended" /\ (outcome = "KeyboardInterrupt" \/ flush = "interrupt")

\* C3: when a run of fetch_and_save_all_data that a KeyboardInterrupt reached
\* (anywhere between the creation of the lists and the end of the run) has
\* stopped, every row buffered in the five lists is in the file of its data
\* type.
C3_InterruptFlushesAll ==
    InterruptedRunEnded => \A dt \in DataTypeSet : BufferedSaved(dt)

\* C4: when a run in which an exception other than JSONDecodeError and
\* KeyboardInterrupt was raised in the try block has stopped, all five lists
\* have been saved (one to_csv each, every buffered row in its file) and the
\* run ended by re-raising that exception.
C4_ExceptionFlushesAll ==
    (pc = "ended" /\ flush = "exception" /\ outcome /= "KeyboardInterrupt")
        => /\ outcome = "Exception"
           /\ \A dt \in DataTypeSet : writes[dt] = 1 /\ BufferedSaved(dt)

\* C5: a fetch_box_score call of the orchestrator whose every attempt met a
\* decode failure ends by raising JSONDecodeError, which the try block
\* catches: "skipping game" is printed for the game and the loop goes on with
\* the next game.
C5_ExhaustedFetchSkipsGame ==
    (ret.kind /= "none" /\ ret.failures = max_retries /\ pc /= "called")
        => /\ ret.kind = "JSONDecodeError"
           /\ game_counter \in skipped
           /\ pc = "for"

\* The (game id, team id) of a file row and of a frame row.
FilePair(r) == <<IntOf(r.gameId), r.teamId>>

\* No two rows of the file have the same (game id, team id).
NoDuplicateRows(file) ==
    Cardinality({FilePair(file[i]) : i \in 1..Len(file)}) = Len(file)

\* The file holds the rows loaded at the start of the run, and after them
\* only rows of games that were not among them.
OnlyAbsentAdded(existing_data, file) ==
    /\ Len(file) >= Len(existing_data)
    /\ \A i \in 1..Len(existing_data) :
           /\ ParseCell(file[i].gameId) = existing_data[i].gameId
           /\ file[i].teamId = existing_data[i].teamId
           /\ file[i].endpoint = existing_data[i].endpoint
    /\ LET column == GameIdColumn(existing_data)
       IN \A i \in (Len(existing_data) + 1)..Len(file) :
              ParseCell(file[i].gameId) \notin column

\* C6: after every sequence of runs (however each run ended) no file of a
\* data type holds two rows with the same (game id, team id), and what the
\* last run left in a file is the rows it loaded followed by rows of games
\* that were absent from them.
C6_NoDuplicatesOnlyAbsentAdded ==
    pc = "ended"
        => \A dt \in DataTypeSet :
               /\ NoDuplicateRows(files[dt])
               /\ runs >= 1 => OnlyAbsentAdded(existing[dt], files[dt])

\* A run that found rows in a file has ended and has added rows to it.
C6_Witness ==
    /\ pc = "ended"
    /\ runs >= 1
    /\ \E dt \in DataTypeSet :
           /\ existing[dt] /= <<>>
           /\ Len(files[dt]) > Len(existing[dt])
           /\ writes[dt] = 1

\* Every row occurs in the file as often as in the loaded frame.
SameOccurrences(existing_data, file) ==
    \A k \in Range(FileKeys(file)) \cup Range(FrameKeys(existing_data)) :
        Occurrences(FileKeys(file), k) = Occurrences(FrameKeys(existing_data), k)

\* C7 as stated: after concatenate_and_save is applied again with the same
\* new-data list to the reloaded output of the merge before, no row occurs
\* more often in the file than in that output.
C7_SameListIdempotent ==
    (pc = "merged" /\ flush = "same")
        => SameOccurrences(existing[data_type], files[data_type])

\* C7 amended: after concatenate_and_save is applied again to the reloaded
\* output of the merge before, with the batches of the list that data_exists
\* does not find in that output, no row occurs more often in the file than in
\* that output.
C7_AbsentListIdempotent ==
    (pc = "merged" /\ flush = "absent")
        => SameOccurrences(existing[data_type], files[data_type])

\* The first merge added rows to the file of the data type (the other files
\* are as long as it was), the second merge was made with what data_exists
\* did not find.
C7_Witness ==
    /\ pc = "merged"
    /\ flush = "absent"
    /\ runs = 2
    /\ writes[data_type] = 2
    /\ \E dt \in DataTypeSet : Len(files[data_type]) > Len(files[dt])

\* A frame row without its first "Unnamed" column.
WithoutIndex(row) == [row EXCEPT !.unnamed = Tail(@)]

\* C8: after concatenate_and_save(E, N) the file holds the rows of E followed
\* by the rows of the batches of N in list order (so the rows of E alone when
\* N is empty, those of N alone when E is empty), and when it wrote the file
\* the first rows read back, the index column aside, as E itself.
C8_ExistingThenNewInOrder ==
    pc = "merged"
        => LET E == existing[data_type]
               N == stats_list[data_type]
               F == files[data_type]
           IN /\ FileKeys(F) = FrameKeys(E) \o ListKeys(N)
              /\ outcome = "saved"
                    => \A i \in 1..Len(E) : WithoutIndex(read_csv(F)[i]) = E[i]

\* E is not empty and N holds batches of two different games.
C8_Witness ==
    /\ pc = "merged"
    /\ outcome = "saved"
    /\ existing[data_type] /= <<>>
    /\ LET N == stats_list[data_type]
       IN /\ Len(N) = 2
          /\ ~N[1].none /\ ~N[2].none
          /\ N[1] /= N[2]
    /\ Len(files[data_type]) = Len(existing[data_type]) + 4

\* C9: whenever the orchestrator calls data_exists(game_id, data_type), the
\* result is true exactly when the loaded frame of the data type is not empty
\* and the game id, as an integer, is a value of its gameId column.
C9_DataExistsIffIntegerIdStored ==
    pc = "try"
        => \A g \in Games :
               game_id = GameIdStr(g)
                   => (data_exists(existing[data_type], game_id)
                          <=> /\ Len(existing[data_type]) > 0
                              /\ \E i \in 1..Len(existing[data_type]) :
                                     /\ existing[data_type][i].gameId.t = "int"
                                     /\ existing[data_type][i].gameId.n = g)

\* The orchestrator asks for a game that the loaded frame holds, and the
\* frame of some data type is not empty and does not hold some game.
C9_Witness ==
    /\ pc = "try"
    /\ data_exists(existing[data_type], game_id)
    /\ \E g \in Games : ~data_exists(existing[data_type], GameIdStr(g))

\* C10: in a run no file is written more than once, and when a run has ended
\* normally, by KeyboardInterrupt or by the exception the try block caught,
\* each of the five files has been written exactly once.
C10_OneWritePerCategory ==
    /\ \A dt \in DataTypeSet : writes[dt] <= 1
    /\ (pc = "ended" /\ outcome \in {"normal", "KeyboardInterrupt", "Exception"})
          => \A dt \in DataTypeSet : writes[dt] = 1

\* The rows of the old file are the first rows of the new file, field by
\* field.
FilePrefix(old, new) ==
    /\ Len(new) >= Len(old)
    /\ \A i \in 1..Len(old) : new[i] = old[i]

\* C11: no step of a run changes a row that a file holds: the rows a file held
\* before the step are, with the same columns and values and in the same
\* order, the first rows of the file after it.
C11_StoredRowsUnchanged ==
    [][\A dt \in DataTypeSet : FilePrefix(files[dt], files'[dt])]_vars

\* The rows of game g in the raw game log that say the given side.
SideRows(game_logs, g, pat) ==
    {i \in 1..Len(game_logs) :
        game_logs[i].GAME_ID = GameIdStr(g) /\ Contains(game_logs[i].MATCHUP, pat)}

HasBothRows(game_logs, g) ==
    SideRows(game_logs, g, " vs. ") /= {} /\ SideRows(game_logs, g, " @ ") /= {}

RecordsOf(merged_df, g) == {i \in 1..Len(merged_df) : merged_df[i].gameId = GameIdStr(g)}

\* The date of game g in the raw game log.
PlayedToday(game_logs, today, g) ==
    \E i \in 1..Len(game_logs) :
        game_logs[i].GAME_ID = GameIdStr(g) /\ ParseDate(game_logs[i].GAME_DATE) = today

\* C12 as stated: the output of process_game_logs has exactly one record for
\* every game that has a home row and an away row in the input, and no game
\* id in more than one record.
C12_OneRecordPerGame ==
    pc = "called"
        => \A g \in LogGames :
               /\ Cardinality(RecordsOf(result.value, g)) <= 1
               /\ HasBothRows(arg.game_logs, g)
                     => Cardinality(RecordsOf(result.value, g)) = 1

\* C12 amended: the output of process_game_logs has exactly one record, with
\* the game's date, for every game not dated today that has a home row and an
\* away row in the input, none for a game dated today, and no game id in more
\* than one record.
C12_OneRecordPerGameNotToday ==
    pc = "called"
        => \A g \in LogGames :
               /\ Cardinality(RecordsOf(result.value, g)) <= 1
               /\ (HasBothRows(arg.game_logs, g) /\ ~PlayedToday(arg.game_logs, arg.today, g))
                     => \E i \in 1..Len(result.value) :
                            /\ RecordsOf(result.value, g) = {i}
                            /\ \A j \in SideRows(arg.game_logs, g, " vs. ") :
                                   result.value[i].GAME_DATE = ParseDate(arg.game_logs[j].GAME_DATE)
               /\ PlayedToday(arg.game_logs, arg.today, g) => RecordsOf(result.value, g) = {}

\* The only game of the input, not dated today, has its home row twice and
\* its away row.
C12_Witness ==
    /\ pc = "called"
    /\ \E g \in LogGames :
           /\ Cardinality(SideRows(arg.game_logs, g, " vs. ")) = 2
           /\ HasBothRows(arg.game_logs, g)
           /\ ~PlayedToday(arg.game_logs, arg.today, g)
           /\ Cardinality(RecordsOf(result.value, g)) = 1
    /\ Len(result.value) = 1

\* C13: no record of the output of process_game_logs has today's date,
\* whatever the input game log.
C13_NoRecordDatedToday ==
    pc = "called"
        => \A i \in 1..Len(result.value) : result.value[i].GAME_DATE /= arg.today

\* A game dated today has both rows in the input, another game is in the
\* output.
C13_Witness ==
    /\ pc = "called"
    /\ \E g \in LogGames :
           HasBothRows(arg.game_logs, g) /\ PlayedToday(arg.game_logs, arg.today, g)
    /\ Len(result.value) = 1

\* The value of statistic j in the row of game g of a side's frame, 0 when it
\* is missing.
StatOrZero(df, g, j) ==
    LET c == CellOf(df, g, j) IN IF c = NaN THEN 0 ELSE c.n

\* C14: generate_diff_features returns a frame with one difference column
\* per statistic column and none for the team columns, and for every game of
\* either side the difference of a statistic is the home value minus the
\* away value, a value missing on one side taken as 0.
C14_DiffIsHomeMinusAway ==
    pc = "called"
        => /\ result.kind = "return"
           /\ Len(result.value.columns) = Len(StatColumns)
           /\ \A g \in ModelGames, j \in 1..Len(StatColumns) :
                  (CellOf(arg.df_home, g, j) /= NaN \/ CellOf(arg.df_away, g, j) /= NaN)
                      => CellOf(result.value, g, j)
                             = IntV(StatOrZero(arg.df_home, g, j) - StatOrZero(arg.df_away, g, j))

\* The game ids of the rows of a partition.
PartitionGames(df) == {df[i].gameId : i \in 1..Len(df)}

\* C15: split_scale_data returns (df_train, df_test, y_train, y_test) where
\* a game dated before the cutoff is in df_train only, a game dated on or
\* after it in df_test only, and the target of each row, in the row order of
\* the features, is the home points minus the away points of its game.
C15_SplitByCutoffDate ==
    pc = "called"
        => /\ result.kind = "return"
           /\ Len(result.value) = 4
           /\ LET df_train == result.value[1]
                  df_test == result.value[2]
                  y_train == result.value[3]
                  y_test == result.value[4]
                  cutoff == ParseDate(arg.cutoff_date)
                  target(g) == arg.df_games[g].HOME_TEAM_PTS - arg.df_games[g].AWAY_TEAM_PTS
              IN /\ \A g \in ModelGames :
                        IF DateBefore(arg.df_games[g].GAME_DATE.date, cutoff)
                        THEN g \in PartitionGames(df_train) /\ g \notin PartitionGames(df_test)
                        ELSE g \in PartitionGames(df_test) /\ g \notin PartitionGames(df_train)
                 /\ Len(y_train) = Len(df_train)
                 /\ Len(y_test) = Len(df_test)
                 /\ \A i \in 1..Len(df_train) : y_train[i] = target(df_train[i].gameId)
                 /\ \A i \in 1..Len(df_test) : y_test[i] = target(df_test[i].gameId)

\* The loaded frame of the data type holds rows of the game of the loop.
PairStored ==
    \E i \in 1..Len(existing[data_type]) :
        /\ existing[data_type][i].gameId.t = "int"
        /\ existing[data_type][i].gameId.n = IntOf(game_id)

\* One step of a run keeps to the order of the loop.
OrderedVisit ==
    /\ game_counter' \in {game_counter, game_counter + 1}
    /\ game_counter' = game_counter + 1 => (ci' = 1 /\ pc' = "try")
    /\ game_counter' = game_counter => ci' \in {ci, ci + 1}
    /\ (pc = "try" /\ pc' = "try" /\ game_counter' = game_counter) => ci' = ci + 1
    /\ game_ids' = game_ids

\* A step that calls fetch_box_score does so for the pair the loop is at, which
\* is not stored, and leaves that pair behind.
FetchOnlyAbsentOnce ==
    ret'.kind /= "none"
        => /\ pc = "try"
           /\ ~PairStored
           /\ ret'.value.none \/ ret'.value = DF(TeamStatsOf(EndpointOf(data_type), game_id))
           /\ pc' = "try" => (game_counter' = game_counter /\ ci' = ci + 1)

\* C16: in a run the loop goes through the game ids once, in order, and for
\* each game through the data types in the order of data_types; it calls
\* fetch_box_score only for the pair it is at, only when the loaded frame does
\* not hold the game, and moves on after the call, so that no pair is fetched
\* twice in a run.
C16_OrderedVisitFetchAbsentOnce ==
    [][pc /= "ended" => (OrderedVisit /\ FetchOnlyAbsentOnce)]_vars

\* The first game was stored and passed over, the second is fetched: its
\* advanced box score is the only entry of the list.
C16_Witness ==
    /\ pc = "try"
    /\ game_counter = 2
    /\ ci = 2
    /\ ret.kind = "return"
    /\ existing["advanced"] /= <<>>
    /\ stats_list["advanced"] = <<DF(TeamStatsOf(EndpointOf("advanced"), GameIdStr(2)))>>

\* C17: when the endpoint raises an exception other than JSONDecodeError on
\* attempt i, after i - 1 decode failures, fetch_box_score ends by raising
\* that exception and the endpoint has been called exactly i times.
C17_OtherExceptionNotRetried ==
    (pc = "called" /\ ret.then /= "ok")
        => /\ ret.kind = ret.then
           /\ ret.calls = ret.failures + 1

\* An exception on the last attempt, after a decode failure on every attempt
\* before it.
C17_Witness ==
    /\ pc = "called"
    /\ ret.then = "Exception"
    /\ ret.failures = max_retries - 1
    /\ ret.kind = "Exception"
    /\ ret.calls = max_retries

\* C18: every entry of the five lists is the team stats a fetch returned,
\* none stands for a fetch that never succeeded, and no save sequence is left
\* because pd.concat fails on a list.
C18_BuffersHoldOnlyFetchedTables ==
    /\ \A dt \in DataTypeSet :
           \A i \in 1..Len(stats_list[dt]) : ~stats_list[dt][i].none
    /\ outcome /= "ValueError"

\* The files are those a run over the game ids of this run left when it ended
\* normally after fetching every pair, and no other run came between.
SecondRunOverSameGames ==
    /\ runs = 1
    /\ pc /= "ended" \/ outcome /= "none"
    /\ existing = find_existing_data(SeasonSoFar(Len(game_ids)))

\* C19: a second run over the game ids of a run that ended normally with every
\* fetch succeeding calls fetch_box_score for no pair, and when it has ended
\* normally the rows of every file are as the first run left them.
C19_SecondRunFetchesNothingChangesNothing ==
    SecondRunOverSameGames
        => /\ ret.kind = "none"
           /\ stats_list = EmptyLists
           /\ (pc = "ended" /\ outcome = "normal")
                 => files = SeasonSoFar(Len(game_ids))

====
